---- MODULE Spec2Model ----
(***************************************************************************)
(* A model of the InstaVibe web application (src/instavibe): the Introvert *)
(* Ally routes with their session-based server-sent-event relays, the page *)
(* handlers, and the JSON API that writes posts and events to the          *)
(* database.                                                               *)
(*                                                                         *)
(* The session is Flask's default one (app.py sets only app.secret_key):   *)
(* it lives in a signed cookie held by the client.  A request loads its    *)
(* own copy of the session from the cookie; the copy is written back to    *)
(* the cookie when the view function returns its response, which for a     *)
(* streaming response is before the generator body produces anything.      *)
(*                                                                         *)
(* Beside the web application the model covers the database helpers of     *)
(* app.py called directly, the data fetchers of src/instavibe/db.py and    *)
(* src/agents/social/instavibe.py, the agent deploy script                 *)
(* (src/agents/app/agent_engine_app.py) and the database setup script      *)
(* (src/instavibe/setup.py).                                               *)
(***************************************************************************)
EXTENDS Naturals, Sequences, FiniteSets, TLC

VARIABLES
    cookie,         \* the client's session cookie (the persisted session)
    req,            \* the streaming requests in flight, one record per slot
    resp,           \* the response of the last non-streaming ally request
    confirms,       \* plans confirmed so far (ally_post_params stored)
    postCalls,      \* post_plan_event invocations so far
    postStreamDone, \* a post-status stream ran to completion since the last confirmation
    db,             \* app.db: TRUE when the Spanner database handle was obtained at start-up
    tables,         \* the rows of the Post, Event, Location, EventLocation and Attendance tables
    before,         \* the tables as they were when the last page or API request arrived
    response,       \* the response of the last page or API request
    txCalls,        \* db.run_in_transaction calls made by the last page or API request
    queries,        \* the statements the last request passed to execute_sql
    returned,       \* how the last direct call of a database helper of app.py ended
    fetched,        \* how the last use of a data fetcher module ended
    deploy,         \* the deploy script: its arguments, the remote agents, the metadata file
    setup           \* the setup script: its position, the DDL issued, the rows committed

postVars == <<confirms, postCalls, postStreamDone>>

toolVars == <<returned, fetched, deploy, setup>>

appVars == <<db, tables, before, response, txCalls, queries, toolVars>>

vars == <<cookie, req, resp, postVars, appVars>>

(***************************************************************************)
(* Bounds of the model.                                                    *)
(***************************************************************************)
\* the longest event sequence an agent generator yields in one request
MaxEvents == 2
\* post_plan_event invocations counted
MaxPostCalls == 2
\* plans confirmed in one run
MaxConfirms == 1
\* the longest event sequence post_plan_event yields in one request
MaxPostEvents == 1
\* the fresh ids uuid4 can hand out per table
MaxIds == 2
\* the most rows a query result holds
MaxRows == 2
\* the most pairs in one --set-env-vars argument
MaxPairs == 3
\* the most agents the remote side holds
MaxAgents == 3
\* the most runs of the deploy script that return
MaxDeploys == 3

\* the streaming requests of one session that may be in flight together
Requests == {"r1", "r2"}

(***************************************************************************)
(* Values.                                                                 *)
(***************************************************************************)
NoneVal == "None"

\* json.dumps: the text of a value; "obj" stands for a value json cannot
\* serialize (json.dumps raises TypeError on it)
Serializable(d) == d # "obj"

JsonDumps(d) == "json(" \o d \o ")"

JsonValues == {"t", "p1", "e1", "err_plan", "null", "ser_issue", "srv_err", "{}"}

\* json.loads: the value of a text, None when the text is no JSON document
JsonLoads(s) ==
    IF \E d \in JsonValues : JsonDumps(d) = s
    THEN CHOOSE d \in JsonValues : JsonDumps(d) = s
    ELSE NoneVal

\* a plan that is a dict holding the key "error"
HasErrorKey(plan) == plan = "err_plan"

\* Python truthiness of a session or form value
Truthy(v) == v \notin {NoneVal, "", "null"}

EmptySession ==
    [ally_request_params |-> NoneVal,
     ally_plan_details   |-> NoneVal,
     ally_post_params    |-> <<>>]

IdleReq ==
    [route |-> "idle", pc |-> "idle", session |-> EmptySession,
     yielded |-> <<>>, out |-> <<>>, calls |-> 0]

Sse(event_type, payload) == [event |-> event_type, data |-> payload]

\* the events call_agent_for_plan can yield: thoughts, a final plan, an error
AgentEvents ==
    {[type |-> "thought", data |-> "t"],
     [type |-> "thought", data |-> "obj"],
     [type |-> "plan_complete", data |-> "p1"],
     [type |-> "error", data |-> "e1"]}

\* the events post_plan_event can yield
PostEvents ==
    {[type |-> "thought", data |-> "t"],
     [type |-> "error", data |-> "e1"],
     [type |-> "posting_finished", data |-> "t"]}

NoResp == [route |-> "none", kind |-> "none", flash |-> NoneVal, plan |-> NoneVal]

InitAlly ==
    /\ cookie = EmptySession
    /\ req = [r \in Requests |-> IdleReq]
    /\ resp = NoResp
    /\ confirms = 0
    /\ postCalls = 0
    /\ postStreamDone = FALSE

(***************************************************************************)
(* POST /api/introvert-ally/submit                                         *)
(***************************************************************************)
submit_introvert_ally_request(date, location_preference, selected_friends) ==
    /\ IF ~Truthy(date) \/ ~Truthy(location_preference) \/ selected_friends = <<>>
       THEN /\ resp' = [route |-> "submit", kind |-> "redirect:ally",
                       flash |-> "Please select a date, enter a location, and choose at least one friend.",
                       plan |-> NoneVal]
            /\ UNCHANGED cookie
       ELSE /\ cookie' = [cookie EXCEPT !.ally_request_params = "params",
                                        !.ally_plan_details = NoneVal]
            /\ resp' = [route |-> "submit", kind |-> "redirect:review",
                       flash |-> NoneVal, plan |-> NoneVal]
    /\ UNCHANGED <<req, postVars, appVars>>

(***************************************************************************)
(* GET /introvert-ally/stream-plan                                         *)
(***************************************************************************)
\* the view function: it reads the session and returns the streaming
\* response; the session is saved to the cookie as it stands at that moment
stream_introvert_ally_plan(r) ==
    /\ req[r].route = "idle"
    /\ req' = [req EXCEPT ![r] =
                 IF ~Truthy(cookie.ally_request_params)
                 THEN [IdleReq EXCEPT !.route = "stream-plan", !.pc = "error_stream",
                                      !.session = cookie]
                 ELSE [IdleReq EXCEPT !.route = "stream-plan", !.pc = "streaming",
                                      !.session = cookie]]
    /\ UNCHANGED <<cookie, resp, postVars, appVars>>

\* the message of error_stream in the two stream routes
MissingMessage(route) ==
    IF route = "stream-plan"
    THEN "Missing plan parameters in session."
    ELSE "Missing posting parameters in session."

\* error_stream: the one message of a stream request without its parameters
error_stream(r) ==
    /\ req[r].pc = "error_stream"
    /\ req' = [req EXCEPT ![r].out = Append(@, Sse("error", JsonDumps(MissingMessage(req[r].route)))),
                          ![r].pc = "done"]
    /\ UNCHANGED <<cookie, resp, postVars, appVars>>

\* the event type and payload generate_stream sends for one agent event
PlanEventType(ev) == IF Serializable(ev.data) THEN ev.type ELSE "thought_error"

PlanPayload(ev) ==
    IF Serializable(ev.data) THEN JsonDumps(ev.data) ELSE JsonDumps("ser_issue")

PlanMessage(ev) == Sse(PlanEventType(ev), PlanPayload(ev))

\* the first next() of generate_stream calls call_agent_for_plan once
PlanCalls(rq) == IF rq.yielded = <<>> /\ rq.calls = 0 THEN 1 ELSE rq.calls

\* generate_stream_yield with an event that cannot be serialized skipped
\* instead of reported
generate_stream_yield_skip(r) ==
    /\ req[r].route = "stream-plan"
    /\ req[r].pc = "streaming"
    /\ Len(req[r].yielded) < MaxEvents
    /\ \E ev \in AgentEvents :
          req' = [req EXCEPT ![r].calls = PlanCalls(req[r]),
                             ![r].yielded = Append(@, ev),
                             ![r].out = IF Serializable(ev.data)
                                        THEN Append(@, PlanMessage(ev)) ELSE @,
                             ![r].pc = "yielded"]
    /\ UNCHANGED <<cookie, resp, postVars, appVars>>

\* one turn of the for loop: the agent yields an event and the message goes out
generate_stream_yield(r) ==
    /\ req[r].route = "stream-plan"
    /\ req[r].pc = "streaming"
    /\ Len(req[r].yielded) < MaxEvents
    /\ \E ev \in AgentEvents :
          req' = [req EXCEPT ![r].calls = PlanCalls(req[r]),
                             ![r].yielded = Append(@, ev),
                             ![r].out = Append(@, PlanMessage(ev)),
                             ![r].pc = "yielded"]
    /\ UNCHANGED <<cookie, resp, postVars, appVars>>

\* the session after the lines that follow the yield
StorePlan(session, ev) ==
    IF PlanEventType(ev) \in {"plan_complete", "error"}
    THEN [session EXCEPT !.ally_plan_details = ev.data]
    ELSE session

\* the generator is resumed after the yield: plan_complete and error are stored
generate_stream_resume(r) ==
    /\ req[r].route = "stream-plan"
    /\ req[r].pc = "yielded"
    /\ req' = [req EXCEPT ![r].session = StorePlan(@, req[r].yielded[Len(req[r].yielded)]),
                          ![r].pc = "streaming"]
    /\ UNCHANGED <<cookie, resp, postVars, appVars>>

\* call_agent_for_plan is exhausted: stream_end
generate_stream_end(r) ==
    /\ req[r].route = "stream-plan"
    /\ req[r].pc = "streaming"
    /\ req' = [req EXCEPT ![r].calls = PlanCalls(req[r]),
                          ![r].out = Append(@, Sse("stream_end", JsonDumps("{}"))),
                          ![r].pc = "done"]
    /\ UNCHANGED <<cookie, resp, postVars, appVars>>

\* generate_stream_except with the agent called again after it raised
generate_stream_except_retry(r) ==
    /\ req[r].route = "stream-plan"
    /\ req[r].pc = "streaming"
    /\ req' = [req EXCEPT ![r].calls = PlanCalls(req[r]) + 1]
    /\ UNCHANGED <<cookie, resp, postVars, appVars>>

\* call_agent_for_plan raises: the except branch sends an error and stores it
generate_stream_except(r) ==
    /\ req[r].route = "stream-plan"
    /\ req[r].pc = "streaming"
    /\ req' = [req EXCEPT ![r].calls = PlanCalls(req[r]),
                          ![r].out = Append(@, Sse("error", JsonDumps("srv_err"))),
                          ![r].session = [@ EXCEPT !.ally_plan_details = "srv_err"],
                          ![r].pc = "raised"]
    /\ UNCHANGED <<cookie, resp, postVars, appVars>>

\* the response is over (exhausted, or the client went away at a yield): the
\* request context and its copy of the session are dropped
close(r) ==
    /\ req[r].pc \in {"done", "raised", "yielded"}
    /\ req' = [req EXCEPT ![r] = IdleReq]
    /\ UNCHANGED <<cookie, resp, postVars, appVars>>

(***************************************************************************)
(* GET /introvert-ally/review                                              *)
(***************************************************************************)
introvert_ally_review_page ==
    /\ resp' = [route |-> "review", kind |-> "render", flash |-> NoneVal,
                plan |-> cookie.ally_plan_details]
    /\ UNCHANGED <<cookie, req, postVars, appVars>>

(***************************************************************************)
(* POST /api/introvert-ally/confirm-plan                                   *)
(***************************************************************************)
\* confirmed_plan['post_to_go_out'] = edited_invite_message
WithInvite(plan, edited_invite_message) ==
    IF Truthy(edited_invite_message) THEN plan \o "+" \o edited_invite_message ELSE plan

\* the plan parsed from the hidden form field, None when absent or no JSON
ConfirmedPlan(confirmed_plan_json_str) ==
    IF Truthy(confirmed_plan_json_str) THEN JsonLoads(confirmed_plan_json_str) ELSE NoneVal

confirm_introvert_ally_plan(confirmed_plan_json_str, edited_invite_message) ==
    LET confirmed_plan == ConfirmedPlan(confirmed_plan_json_str)
        user_name_for_posting == "Alice"
    IN  IF ~Truthy(confirmed_plan) \/ HasErrorKey(confirmed_plan)
        THEN /\ resp' = [route |-> "confirm", kind |-> "redirect:ally",
                         flash |-> "Cannot confirm an invalid or missing plan.",
                         plan |-> NoneVal]
             /\ UNCHANGED <<cookie, req, postVars, appVars>>
        ELSE /\ confirms < MaxConfirms
             /\ cookie' = [cookie EXCEPT
                   !.ally_post_params = <<user_name_for_posting,
                                          WithInvite(confirmed_plan, edited_invite_message),
                                          edited_invite_message,
                                          user_name_for_posting>>,
                   !.ally_plan_details = NoneVal]
             /\ resp' = [route |-> "confirm", kind |-> "redirect:post-status",
                         flash |-> NoneVal, plan |-> NoneVal]
             /\ confirms' = confirms + 1
             /\ postStreamDone' = FALSE
             /\ UNCHANGED <<req, postCalls, appVars>>

(***************************************************************************)
(* GET /introvert-ally/post-status                                         *)
(***************************************************************************)
introvert_ally_post_status_page ==
    /\ resp' = IF cookie.ally_post_params = <<>>
               THEN [route |-> "post-status", kind |-> "redirect:ally",
                     flash |-> "No posting parameters found. Please confirm a plan first.",
                     plan |-> NoneVal]
               ELSE [route |-> "post-status", kind |-> "render", flash |-> NoneVal,
                     plan |-> cookie.ally_post_params[2]]
    /\ UNCHANGED <<cookie, req, postVars, appVars>>

(***************************************************************************)
(* GET /introvert-ally/stream-post-status                                  *)
(***************************************************************************)
\* the view function: it reads the session and returns the streaming
\* response; the session is saved to the cookie as it stands at that moment
stream_post_status(r) ==
    /\ req[r].route = "idle"
    /\ req' = [req EXCEPT ![r] =
                 IF cookie.ally_post_params = <<>>
                 THEN [IdleReq EXCEPT !.route = "stream-post-status", !.pc = "error_stream",
                                      !.session = cookie]
                 ELSE [IdleReq EXCEPT !.route = "stream-post-status", !.pc = "streaming",
                                      !.session = cookie]]
    /\ UNCHANGED <<cookie, resp, postVars, appVars>>

\* the first next() of generate_post_stream: the for statement calls
\* post_plan_event with the parameters read by the view function
generate_post_stream_call(r) ==
    /\ req[r].route = "stream-post-status"
    /\ req[r].pc = "streaming"
    /\ req[r].calls = 0
    /\ postCalls < MaxPostCalls
    /\ req' = [req EXCEPT ![r].calls = 1]
    /\ postCalls' = postCalls + 1
    /\ UNCHANGED <<cookie, resp, confirms, postStreamDone, appVars>>

\* one turn of the for loop: post_plan_event yields an event, the message goes out
generate_post_stream_yield(r) ==
    /\ req[r].route = "stream-post-status"
    /\ req[r].pc \in {"streaming", "yielded"}
    /\ req[r].calls = 1
    /\ Len(req[r].yielded) < MaxPostEvents
    /\ \E ev \in PostEvents :
          req' = [req EXCEPT ![r].yielded = Append(@, ev),
                             ![r].out = Append(@, Sse(ev.type, JsonDumps(ev.data))),
                             ![r].pc = "yielded"]
    /\ UNCHANGED <<cookie, resp, postVars, appVars>>

\* post_plan_event is exhausted: the parameters are popped from the request's
\* session and stream_end goes out.  post_plan_event slices the invite
\* message, so it cannot run to its end when the message is None.
generate_post_stream_end(r) ==
    /\ req[r].route = "stream-post-status"
    /\ req[r].pc \in {"streaming", "yielded"}
    /\ req[r].calls = 1
    /\ req[r].session.ally_post_params[3] # NoneVal
    /\ req' = [req EXCEPT ![r].session = [@ EXCEPT !.ally_post_params = <<>>],
                          ![r].out = Append(@, Sse("stream_end", JsonDumps("{}"))),
                          ![r].pc = "done"]
    /\ postStreamDone' = TRUE
    /\ UNCHANGED <<cookie, resp, confirms, postCalls, appVars>>

\* post_plan_event raises: generate_post_stream has no handler, the response breaks off
generate_post_stream_raise(r) ==
    /\ req[r].route = "stream-post-status"
    /\ req[r].pc \in {"streaming", "yielded"}
    /\ req[r].calls = 1
    /\ req' = [req EXCEPT ![r].pc = "raised"]
    /\ UNCHANGED <<cookie, resp, postVars, appVars>>

NextPost ==
    \/ \E j \in {"", "not json", JsonDumps("null"), JsonDumps("err_plan"), JsonDumps("p1")},
          m \in {NoneVal, "hi"} :
          confirm_introvert_ally_plan(j, m)
    \/ introvert_ally_post_status_page
    \/ \E r \in Requests : stream_post_status(r)
    \/ \E r \in Requests : error_stream(r)
    \/ \E r \in Requests : generate_post_stream_call(r)
    \/ \E r \in Requests : generate_post_stream_yield(r)
    \/ \E r \in Requests : generate_post_stream_end(r)
    \/ \E r \in Requests : generate_post_stream_raise(r)
    \/ \E r \in Requests : close(r)

(***************************************************************************)
(* The database as the web application sees it.                            *)
(***************************************************************************)
\* the Person rows (the application never writes this table)
Person ==
    {[person_id |-> "p1", name |-> "Alice"],
     [person_id |-> "p2", name |-> "Bob"]}

\* person_id and event_id values a URL can carry, names a JSON body can carry
PersonIdInputs == {"p1", "p2", "zz", "' OR '1'='1"}

EventIdInputs == {"e0", "e1", "zz", "' OR '1'='1"}

NameInputs == {"Alice", "Bob", "Zed"}

\* the tables as setup left them: one event with a location and an attendee, one post
InitTables ==
    [Post          |-> {[post_id |-> "u0", author_id |-> "p1", text |-> "hello"]},
     Event         |-> {"e0"},
     Location      |-> {"l0"},
     EventLocation |-> {<<"e0", "l0">>},
     Attendance    |-> {<<"p1", "e0">>}]

\* how one run_query call ends: rows; a Spanner error it flashes and turns
\* into []; any other exception, flashed and raised again
Outcomes == {"ok", "spanner_error", "raise"}

\* the outcomes of the run_query calls of one page request, in call order
QueryOutcomes == [1..5 -> Outcomes]

Query(fn, sql, name, value) == [fn |-> fn, sql |-> sql, param |-> name, value |-> value]

\* get_person_db with the id formatted into the statement
get_person_db_formatted(person_id) ==
    Query("get_person_db",
          "SELECT person_id, name, age FROM Person WHERE person_id = '" \o person_id \o "'",
          "person_id", person_id)

get_person_db(person_id) ==
    Query("get_person_db",
          "SELECT person_id, name, age FROM Person WHERE person_id = @person_id",
          "person_id", person_id)

get_posts_by_person_db(person_id) ==
    Query("get_posts_by_person_db",
          "SELECT p.post_id, p.author_id, p.text, p.sentiment, p.post_timestamp, author.name as author_name FROM Post AS p JOIN Person AS author ON p.author_id = author.person_id WHERE p.author_id = @person_id ORDER BY p.post_timestamp DESC",
          "person_id", person_id)

get_friends_db(person_id) ==
    Query("get_friends_db",
          "SELECT DISTINCT friend.person_id, friend.name FROM Friendship AS f JOIN Person AS friend ON (f.person_id_a = @person_id AND f.person_id_b = friend.person_id) OR (f.person_id_b = @person_id AND f.person_id_a = friend.person_id) WHERE f.person_id_a = @person_id OR f.person_id_b = @person_id ORDER BY friend.name",
          "person_id", person_id)

\* get_all_events_with_attendees_db: its two statements
get_all_events_sql ==
    Query("get_all_events_with_attendees_db.event_sql",
          "SELECT event_id, name, event_date FROM Event ORDER BY event_date DESC LIMIT 50",
          NoneVal, <<>>)

get_all_events_attendee_sql(event_ids) ==
    Query("get_all_events_with_attendees_db.attendee_sql",
          "SELECT a.event_id, p.person_id, p.name FROM Attendance AS a JOIN Person AS p ON a.person_id = p.person_id WHERE a.event_id IN UNNEST(@event_ids) ORDER BY a.event_id, p.name",
          "event_ids", event_ids)

\* get_event_details_with_locations_attendees_db: its three statements
get_event_details_event_sql(event_id) ==
    Query("get_event_details_with_locations_attendees_db.event_sql",
          "SELECT event_id, name, description, event_date FROM Event WHERE event_id = @event_id",
          "event_id", event_id)

get_event_details_locations_sql(event_id) ==
    Query("get_event_details_with_locations_attendees_db.locations_sql",
          "SELECT l.location_id, l.name, l.description, l.latitude, l.longitude, l.address FROM Location AS l JOIN EventLocation AS el ON l.location_id = el.location_id WHERE el.event_id = @event_id ORDER BY l.name",
          "event_id", event_id)

get_event_details_attendees_sql(event_id) ==
    Query("get_event_details_with_locations_attendees_db.attendees_sql",
          "SELECT p.person_id, p.name FROM Person AS p JOIN Attendance AS a ON p.person_id = a.person_id WHERE a.event_id = @event_id ORDER BY p.name",
          "event_id", event_id)

get_person_by_name_db(name) ==
    Query("get_person_by_name_db",
          "SELECT person_id FROM Person WHERE name = @name LIMIT 1",
          "name", name)

\* the flash run_query itself issues for an outcome
RunQueryFlash(outcome) ==
    CASE outcome = "spanner_error" -> {"Database error"}
      [] outcome = "raise" -> {"An unexpected server error occurred while fetching data."}
      [] OTHER -> {}

\* the statements of qs up to and including the first whose run_query raises
RECURSIVE UntilRaise(_, _, _)
UntilRaise(qs, oc, i) ==
    IF qs = <<>> THEN <<>>
    ELSE IF oc[i] = "raise" THEN <<Head(qs)>>
    ELSE <<Head(qs)>> \o UntilRaise(Tail(qs), oc, i + 1)

\* the flashes run_query issues while those statements run
RECURSIVE FlashesUntilRaise(_, _, _)
FlashesUntilRaise(qs, oc, i) ==
    IF qs = <<>> THEN {}
    ELSE IF oc[i] = "raise" THEN RunQueryFlash(oc[i])
    ELSE RunQueryFlash(oc[i]) \cup FlashesUntilRaise(Tail(qs), oc, i + 1)

PageResponse(route, request, status, error, flashes, outcome) ==
    [route |-> route, request |-> request, status |-> status, error |-> error,
     flashes |-> flashes, outcome |-> outcome]

NoPage == PageResponse("none", NoneVal, 0, FALSE, {}, NoneVal)

(***************************************************************************)
(* GET /person/<person_id>                                                 *)
(***************************************************************************)
\* the statements person_profile runs once the person was found: the event
\* ids are looked up only when the event statement returned rows
ProfileStatements(person_id, oc) ==
    <<get_posts_by_person_db(person_id), get_friends_db(person_id), get_all_events_sql>>
    \o (IF oc[4] = "ok" /\ tables.Event # {}
        THEN <<get_all_events_attendee_sql(tables.Event)>>
        ELSE <<>>)

person_profile(person_id, oc) ==
    LET person == IF oc[1] = "ok" THEN {p \in Person : p.person_id = person_id} ELSE {}
        rest == ProfileStatements(person_id, oc)
        ran == UntilRaise(rest, oc, 2)
        raised == \E i \in 1..Len(ran) : oc[i + 1] = "raise"
    IN  /\ IF ~db
           THEN \* abort(503) ahead of the try block
                /\ response' = PageResponse("person_profile", person_id, 503, TRUE,
                       {"Database connection not available. Cannot load profile."}, NoneVal)
                /\ queries' = <<>>
           ELSE IF oc[1] = "raise"
           THEN \* the except branch reads person, which was never bound
                /\ response' = PageResponse("person_profile", person_id, 500, TRUE,
                       RunQueryFlash(oc[1]) \cup {"Failed to load profile data"}, oc[1])
                /\ queries' = <<get_person_db(person_id)>>
           ELSE IF person = {}
           THEN \* abort(404) inside the try block: except Exception catches it
                /\ response' = PageResponse("person_profile", person_id, 200, TRUE,
                       RunQueryFlash(oc[1]) \cup {"Failed to load profile data"}, oc[1])
                /\ queries' = <<get_person_db(person_id)>>
           ELSE /\ response' = PageResponse("person_profile", person_id, 200, raised,
                       FlashesUntilRaise(rest, oc, 2)
                         \cup (IF raised THEN {"Failed to load profile data"} ELSE {}),
                       oc[1])
                /\ queries' = <<get_person_db(person_id)>> \o ran
        /\ before' = tables
        /\ txCalls' = 0
        /\ UNCHANGED <<cookie, req, resp, postVars, toolVars, db, tables>>

(***************************************************************************)
(* GET /event/<event_id>                                                   *)
(***************************************************************************)
event_detail_page(event_id, oc) ==
    LET event_result == IF oc[1] = "ok" THEN {e \in tables.Event : e = event_id} ELSE {}
        rest == <<get_event_details_locations_sql(event_id),
                  get_event_details_attendees_sql(event_id)>>
        ran == UntilRaise(rest, oc, 2)
        raised == \E i \in 1..Len(ran) : oc[i + 1] = "raise"
    IN  /\ IF ~db
           THEN /\ response' = PageResponse("event_detail_page", event_id, 503, TRUE,
                       {"Database connection not available. Cannot load event details."}, NoneVal)
                /\ queries' = <<>>
           ELSE IF oc[1] = "raise"
           THEN /\ response' = PageResponse("event_detail_page", event_id, 200, TRUE,
                       RunQueryFlash(oc[1]) \cup {"Failed to load event data"}, oc[1])
                /\ queries' = <<get_event_details_event_sql(event_id)>>
           ELSE IF event_result = {}
           THEN \* abort(404) inside the try block: except Exception catches it
                /\ response' = PageResponse("event_detail_page", event_id, 200, TRUE,
                       RunQueryFlash(oc[1]) \cup {"Failed to load event data"}, oc[1])
                /\ queries' = <<get_event_details_event_sql(event_id)>>
           ELSE /\ response' = PageResponse("event_detail_page", event_id, 200, raised,
                       FlashesUntilRaise(rest, oc, 2)
                         \cup (IF raised THEN {"Failed to load event data"} ELSE {}),
                       oc[1])
                /\ queries' = <<get_event_details_event_sql(event_id)>> \o ran
        /\ before' = tables
        /\ txCalls' = 0
        /\ UNCHANGED <<cookie, req, resp, postVars, toolVars, db, tables>>

(***************************************************************************)
(* GET /introvert-ally                                                     *)
(***************************************************************************)
\* how loading the people list ends
PeopleOutcomes == {"ok", "import_error", "spanner_error", "raise"}

\* a Python value that is a list, or None
PyList(rows) == [none |-> FALSE, rows |-> rows]

PyNone == [none |-> TRUE, rows |-> <<>>]

\* get_all_people_for_ally_page: the names in order, [] on every failure
get_all_people_for_ally_page(outcome) ==
    IF outcome = "import_error" THEN PyList(<<>>)
    ELSE IF ~db THEN PyList(<<>>)
    ELSE IF outcome = "ok" THEN PyList(<<"Alice", "Bob">>)
    ELSE PyList(<<>>)

\* the flash of introvert_ally_page, issued when the list is None
PeopleFlash(friends_list) ==
    IF friends_list.none
    THEN {"Could not load the list of people from the database."}
    ELSE {}

introvert_ally_page(outcome) ==
    LET friends_list == get_all_people_for_ally_page(outcome)
        ran == outcome # "import_error" /\ db
    IN  /\ response' = [route |-> "introvert_ally_page", request |-> NoneVal,
                        status |-> 200, error |-> FALSE,
                        flashes |-> (IF ran THEN RunQueryFlash(outcome) ELSE {})
                                      \cup PeopleFlash(friends_list),
                        outcome |-> outcome, friends |-> friends_list.rows]
        /\ queries' = IF ran
                      THEN <<Query("get_all_people_for_ally_page",
                                   "SELECT person_id, name FROM Person ORDER BY name",
                                   NoneVal, <<>>)>>
                      ELSE <<>>
        /\ before' = tables
        /\ txCalls' = 0
        /\ UNCHANGED <<cookie, req, resp, postVars, toolVars, db, tables>>

NextPages ==
    \/ \E person_id \in PersonIdInputs, oc \in QueryOutcomes : person_profile(person_id, oc)
    \/ \E event_id \in EventIdInputs, oc \in QueryOutcomes : event_detail_page(event_id, oc)
    \/ \E outcome \in PeopleOutcomes : introvert_ally_page(outcome)

(***************************************************************************)
(* The JSON API: POST /api/posts and POST /api/events.                     *)
(***************************************************************************)
\* the ids uuid.uuid4() can return; "u0", "e0" and "l0" are the rows setup
\* wrote, so that an id can also collide with a row that exists
PostIds == {"u" \o ToString(i) : i \in 0..MaxIds}

EventIds == {"e" \o ToString(i) : i \in 0..MaxIds}

LocationIds == {"l" \o ToString(i) : i \in 0..(2 * MaxIds)}

Missing == "<missing>"

NonString == "<not a string>"

\* where the lookups of a request stop: at none, or at the k-th, whose
\* run_query swallows a Spanner error or raises
LookupFailures(n) == {<<0, "ok">>} \cup ((1..n) \X {"spanner_error", "raise"})

\* get_person_by_name_db's result for a run_query that returned: the
\* person_id of the row, None when there is no row
PersonIdByName(name) ==
    IF \E p \in Person : p.name = name
    THEN (CHOOSE p \in Person : p.name = name).person_id
    ELSE NoneVal

\* a JSON response: the status, and for 201 the new id and the locations echoed
ApiResponse(route, status, id, nlocs) ==
    [route |-> route, status |-> status, id |-> id, nlocs |-> nlocs]

\* str.strip() leaves nothing
Blank(v) == v \in {"", " "}

\* the bodies request.get_json() can return for POST /api/posts
PostBodies ==
    [author_name : {Missing, NonString, " "} \cup NameInputs,
     text        : {Missing, "", "hello"},
     sentiment   : {Missing, NonString, "positive"}]

\* the checks of add_post_api ahead of the database calls
PostBodyValid(data) ==
    /\ ~(data.author_name = Missing /\ data.text = Missing /\ data.sentiment = Missing)
    /\ data.author_name # Missing /\ data.text # Missing
    /\ data.author_name # NonString /\ ~Blank(data.author_name)
    /\ data.text # NonString /\ ~Blank(data.text)
    /\ data.sentiment # NonString

\* add_post_db with the row written outside a transaction, so that a commit
\* that reports failure leaves it behind
add_post_db_unreported(t, post_id, author_id, text, txOk) ==
    [ok |-> txOk /\ ~(\E row \in t.Post : row.post_id = post_id),
     tables |-> [t EXCEPT !.Post = @ \cup {[post_id |-> post_id,
                                            author_id |-> author_id,
                                            text |-> text]}]]

\* db.run_in_transaction(_insert_post): the insert commits, or it raises and
\* nothing is written; an insert of a post_id that exists raises AlreadyExists
add_post_db(t, post_id, author_id, text, txOk) ==
    IF txOk /\ ~(\E row \in t.Post : row.post_id = post_id)
    THEN [ok |-> TRUE,
          tables |-> [t EXCEPT !.Post = @ \cup {[post_id |-> post_id,
                                                 author_id |-> author_id,
                                                 text |-> text]}]]
    ELSE [ok |-> FALSE, tables |-> t]

add_post_api(data, failure, new_post_id, txOk) ==
    LET author_id == IF failure[2] = "ok" THEN PersonIdByName(data.author_name) ELSE NoneVal
        done == add_post_db(tables, new_post_id, author_id, data.text, txOk)
    IN  /\ before' = tables
        /\ IF ~db
           THEN /\ response' = ApiResponse("add_post_api", 503, NoneVal, 0)
                /\ queries' = <<>>
                /\ txCalls' = 0
                /\ UNCHANGED tables
           ELSE IF ~PostBodyValid(data)
           THEN /\ response' = ApiResponse("add_post_api", 400, NoneVal, 0)
                /\ queries' = <<>>
                /\ txCalls' = 0
                /\ UNCHANGED tables
           ELSE IF failure[2] = "raise"
           THEN /\ response' = ApiResponse("add_post_api", 500, NoneVal, 0)
                /\ queries' = <<get_person_by_name_db(data.author_name)>>
                /\ txCalls' = 0
                /\ UNCHANGED tables
           ELSE IF author_id = NoneVal
           THEN /\ response' = ApiResponse("add_post_api", 404, NoneVal, 0)
                /\ queries' = <<get_person_by_name_db(data.author_name)>>
                /\ txCalls' = 0
                /\ UNCHANGED tables
           ELSE /\ response' = ApiResponse("add_post_api", IF done.ok THEN 201 ELSE 500,
                                          IF done.ok THEN new_post_id ELSE NoneVal, 0)
                /\ queries' = <<get_person_by_name_db(data.author_name)>>
                /\ txCalls' = 1
                /\ tables' = done.tables
        /\ UNCHANGED <<cookie, req, resp, postVars, toolVars, db>>

\* the bodies request.get_json() can return for POST /api/events: a name, a
\* date, the locations (each well-formed or not) and the attendee names
LocationLists == {<<>>, <<"ok">>, <<"ok", "ok">>, <<"bad">>}

AttendeeLists ==
    {<<>>, <<" ">>, <<"Alice">>, <<"Zed">>, <<"Bob", "Alice">>, <<"Alice", "Alice">>,
     <<"Alice", "Zed">>}

EventBodies ==
    [event_name     : {Missing, "Picnic"},
     event_date     : {"not a date", "2025-06-01T10:00:00Z"},
     locations      : LocationLists,
     attendee_names : AttendeeLists]

\* the checks of add_event_api ahead of the database calls, the date parse included
EventBodyValid(data) ==
    /\ data.event_name # Missing
    /\ data.attendee_names # <<>>
    /\ \A i \in 1..Len(data.attendee_names) : ~Blank(data.attendee_names[i])
    /\ data.locations # <<>>
    /\ \A i \in 1..Len(data.locations) : data.locations[i] = "ok"
    /\ data.event_date # "not a date"

\* the ids uuid.uuid4() gives the n locations of a request: ids not in use,
\* when the pool still holds n of them
FreshLocationIds(t, n) ==
    LET free == LocationIds \ t.Location
    IN  IF Cardinality(free) < n THEN {}
        ELSE CHOOSE ids \in SUBSET free : Cardinality(ids) = n

\* attendee_ids holds the same person twice
HasDuplicates(ids) == \E i, j \in 1..Len(ids) : i # j /\ ids[i] = ids[j]

\* add_full_event_with_details_db with the Event row committed on its own,
\* ahead of the rows that can still fail
add_full_event_with_details_db_partial(t, event_id, nlocs, attendee_ids, txOk) ==
    LET location_ids == FreshLocationIds(t, nlocs)
        conflict == \/ event_id \in t.Event
                    \/ Cardinality(location_ids) < nlocs
                    \/ HasDuplicates(attendee_ids)
    IN  IF ~db
        THEN \* raise ConnectionError ahead of the transaction
             [ok |-> FALSE, raised |-> TRUE, tables |-> t]
        ELSE IF txOk /\ ~conflict
        THEN [ok |-> TRUE, raised |-> FALSE,
              tables |-> [t EXCEPT
                 !.Event = @ \cup {event_id},
                 !.Location = @ \cup location_ids,
                 !.EventLocation = @ \cup {<<event_id, l>> : l \in location_ids},
                 !.Attendance = @ \cup {<<attendee_ids[i], event_id>> :
                                           i \in 1..Len(attendee_ids)}]]
        ELSE [ok |-> FALSE, raised |-> FALSE, tables |-> [t EXCEPT !.Event = @ \cup {event_id}]]

\* db.run_in_transaction(_insert_event_and_attendee): the Event row, the
\* Location and EventLocation rows and the Attendance rows commit together,
\* or the call raises and nothing is written; without a database handle the
\* function raises ConnectionError
add_full_event_with_details_db(t, event_id, nlocs, attendee_ids, txOk) ==
    LET location_ids == FreshLocationIds(t, nlocs)
        conflict == \/ event_id \in t.Event
                    \/ Cardinality(location_ids) < nlocs
                    \/ HasDuplicates(attendee_ids)
    IN  IF ~db
        THEN \* raise ConnectionError ahead of the transaction
             [ok |-> FALSE, raised |-> TRUE, tables |-> t]
        ELSE IF txOk /\ ~conflict
        THEN [ok |-> TRUE, raised |-> FALSE,
              tables |-> [t EXCEPT
                 !.Event = @ \cup {event_id},
                 !.Location = @ \cup location_ids,
                 !.EventLocation = @ \cup {<<event_id, l>> : l \in location_ids},
                 !.Attendance = @ \cup {<<attendee_ids[i], event_id>> :
                                           i \in 1..Len(attendee_ids)}]]
        ELSE [ok |-> FALSE, raised |-> FALSE, tables |-> t]

\* the lookups add_event_api makes: one per attendee name, up to the first
\* that raises or finds nobody
RECURSIVE AttendeeLookups(_, _, _)
AttendeeLookups(names, failure, i) ==
    IF i > Len(names) THEN <<>>
    ELSE IF failure[1] = i \/ PersonIdByName(names[i]) = NoneVal
    THEN <<get_person_by_name_db(names[i])>>
    ELSE <<get_person_by_name_db(names[i])>> \o AttendeeLookups(names, failure, i + 1)

add_event_api(data, failure, new_event_id, txOk) ==
    LET names == data.attendee_names
        lookups == AttendeeLookups(names, failure, 1)
        last == Len(lookups)
        attendee_ids == [i \in 1..Len(names) |-> PersonIdByName(names[i])]
        nlocs == Len(data.locations)
        done == add_full_event_with_details_db(tables, new_event_id, nlocs, attendee_ids, txOk)
    IN  /\ before' = tables
        /\ IF ~db
           THEN /\ response' = ApiResponse("add_event_api", 503, NoneVal, 0)
                /\ queries' = <<>>
                /\ txCalls' = 0
                /\ UNCHANGED tables
           ELSE IF ~EventBodyValid(data)
           THEN /\ response' = ApiResponse("add_event_api", 400, NoneVal, 0)
                /\ queries' = <<>>
                /\ txCalls' = 0
                /\ UNCHANGED tables
           ELSE IF failure[1] = last /\ failure[2] = "raise"
           THEN /\ response' = ApiResponse("add_event_api", 500, NoneVal, 0)
                /\ queries' = lookups
                /\ txCalls' = 0
                /\ UNCHANGED tables
           ELSE IF failure[1] = last \/ PersonIdByName(names[last]) = NoneVal
           THEN /\ response' = ApiResponse("add_event_api", 404, NoneVal, 0)
                /\ queries' = lookups
                /\ txCalls' = 0
                /\ UNCHANGED tables
           ELSE IF done.raised
           THEN \* except ConnectionError
                /\ response' = ApiResponse("add_event_api", 503, NoneVal, 0)
                /\ queries' = lookups
                /\ txCalls' = 0
                /\ UNCHANGED tables
           ELSE /\ response' = ApiResponse("add_event_api", IF done.ok THEN 201 ELSE 500,
                                          IF done.ok THEN new_event_id ELSE NoneVal,
                                          IF done.ok THEN nlocs ELSE 0)
                /\ queries' = lookups
                /\ txCalls' = 1
                /\ tables' = done.tables
        /\ UNCHANGED <<cookie, req, resp, postVars, toolVars, db>>

(***************************************************************************)
(* add_full_event_with_details_db called on its own, as any importer of    *)
(* app.py can call it, whatever the state of the database handle.          *)
(***************************************************************************)
NoCall == [fn |-> "none", raised |-> NoneVal, value |-> NoneVal]

\* the attendee_ids lists a caller passes
AttendeeIdLists == {<<>>, <<"p1">>, <<"p2", "p1">>, <<"p1", "p1">>}

call_add_full_event_with_details_db(event_id, nlocs, attendee_ids, txOk) ==
    LET done == add_full_event_with_details_db(tables, event_id, nlocs, attendee_ids, txOk)
    IN  /\ returned' = [fn |-> "add_full_event_with_details_db",
                        raised |-> IF done.raised THEN "ConnectionError" ELSE NoneVal,
                        value |-> IF done.raised THEN NoneVal
                                  ELSE IF done.ok THEN "True" ELSE "False"]
        /\ before' = tables
        /\ tables' = done.tables
        /\ UNCHANGED <<cookie, req, resp, postVars, db, response, txCalls, queries,
                       fetched, deploy, setup>>

NextHelper ==
    \E event_id \in EventIds, nlocs \in 0..2, attendee_ids \in AttendeeIdLists,
       txOk \in BOOLEAN :
       call_add_full_event_with_details_db(event_id, nlocs, attendee_ids, txOk)

(***************************************************************************)
(* The data fetcher modules: src/instavibe/db.py (run_graph_query) and     *)
(* src/agents/social/instavibe.py (run_sql_query, run_graph_query).        *)
(***************************************************************************)
\* the rows execute_sql can stream back: each a list of column values
ResultRows == {<<>>, <<"v1">>, <<"v1", "v2">>}

ResultSets == UNION {[1..n -> ResultRows] : n \in 0..MaxRows}

\* the expected_fields a caller passes; <<>> is None or an empty list
ExpectedFields == {<<>>, <<"a">>, <<"a", "b">>, <<"a", "a">>}

\* how execute_sql and the reading of its rows end
FetchOutcomes == {"ok", "spanner_error", "raise", "raise_reading"}

\* dict(zip(field_names, row)): a repeated name keeps its last value
DictZip(field_names, row) ==
    [k \in {field_names[i] : i \in 1..Len(field_names)} |->
        row[CHOOSE i \in 1..Len(field_names) :
               /\ field_names[i] = k
               /\ \A j \in (i + 1)..Len(field_names) : field_names[j] # k]]

\* the for loop over the rows: a row of another length is skipped
RECURSIVE RowsToDicts(_, _)
RowsToDicts(field_names, rows) ==
    IF rows = <<>> THEN <<>>
    ELSE IF Len(field_names) # Len(Head(rows))
    THEN RowsToDicts(field_names, Tail(rows))
    ELSE <<DictZip(field_names, Head(rows))>> \o RowsToDicts(field_names, Tail(rows))

\* db.py: run_graph_query(db_instance, graph_sql, ..., expected_fields)
db_run_graph_query(db_instance, expected_fields, outcome, rows) ==
    IF ~db_instance THEN PyNone
    ELSE IF outcome \in {"spanner_error", "raise"} THEN PyNone
    ELSE IF expected_fields = <<>> THEN PyNone
    ELSE IF outcome = "raise_reading" THEN PyNone
    ELSE PyList(RowsToDicts(expected_fields, rows))

\* agents/social/instavibe.py: run_sql_query(sql, ..., expected_fields),
\* with the module's own db_instance
social_run_sql_query(db_instance, expected_fields, outcome, rows) ==
    IF ~db_instance THEN PyNone
    ELSE IF outcome \in {"spanner_error", "raise"} THEN PyNone
    ELSE IF expected_fields = <<>> THEN PyNone
    ELSE IF outcome = "raise_reading" THEN PyNone
    ELSE PyList(RowsToDicts(expected_fields, rows))

\* agents/social/instavibe.py: run_graph_query(graph_sql, ..., expected_fields)
social_run_graph_query(db_instance, expected_fields, outcome, rows) ==
    IF ~db_instance THEN PyNone
    ELSE IF outcome \in {"spanner_error", "raise"} THEN PyNone
    ELSE IF expected_fields = <<>> THEN PyNone
    ELSE IF outcome = "raise_reading" THEN PyNone
    ELSE PyList(RowsToDicts(expected_fields, rows))

\* whether Python can compile the module: line 5 of db.py,
\* "from datetime import datetime,", is a syntax error
ModuleCompiles(module) == module # "instavibe/db.py"

Fetch(module, fn, raised, value, db_instance, expected_fields, outcome, rows) ==
    [module |-> module, fn |-> fn, raised |-> raised, value |-> value,
     db_instance |-> db_instance, expected_fields |-> expected_fields,
     outcome |-> outcome, rows |-> rows]

NoFetch == Fetch("none", "none", NoneVal, PyNone, FALSE, <<>>, "ok", <<>>)

\* a program imports the function from its module and calls it
use_db_run_graph_query(db_instance, expected_fields, outcome, rows) ==
    /\ fetched' = IF ModuleCompiles("instavibe/db.py")
                  THEN Fetch("instavibe/db.py", "run_graph_query", NoneVal,
                             db_run_graph_query(db_instance, expected_fields, outcome, rows),
                             db_instance, expected_fields, outcome, rows)
                  ELSE Fetch("instavibe/db.py", "run_graph_query", "SyntaxError", PyNone,
                             db_instance, expected_fields, outcome, rows)
    /\ UNCHANGED <<cookie, req, resp, postVars, db, tables, before, response, txCalls,
                   queries, returned, deploy, setup>>

use_social_run_sql_query(db_instance, expected_fields, outcome, rows) ==
    /\ fetched' = IF ModuleCompiles("agents/social/instavibe.py")
                  THEN Fetch("agents/social/instavibe.py", "run_sql_query", NoneVal,
                             social_run_sql_query(db_instance, expected_fields, outcome, rows),
                             db_instance, expected_fields, outcome, rows)
                  ELSE Fetch("agents/social/instavibe.py", "run_sql_query", "SyntaxError",
                             PyNone, db_instance, expected_fields, outcome, rows)
    /\ UNCHANGED <<cookie, req, resp, postVars, db, tables, before, response, txCalls,
                   queries, returned, deploy, setup>>

use_social_run_graph_query(db_instance, expected_fields, outcome, rows) ==
    /\ fetched' = IF ModuleCompiles("agents/social/instavibe.py")
                  THEN Fetch("agents/social/instavibe.py", "run_graph_query", NoneVal,
                             social_run_graph_query(db_instance, expected_fields, outcome, rows),
                             db_instance, expected_fields, outcome, rows)
                  ELSE Fetch("agents/social/instavibe.py", "run_graph_query", "SyntaxError",
                             PyNone, db_instance, expected_fields, outcome, rows)
    /\ UNCHANGED <<cookie, req, resp, postVars, db, tables, before, response, txCalls,
                   queries, returned, deploy, setup>>

NextFetch ==
    \E db_instance \in BOOLEAN, expected_fields \in ExpectedFields,
       outcome \in FetchOutcomes, rows \in ResultSets :
        \/ use_db_run_graph_query(db_instance, expected_fields, outcome, rows)
        \/ use_social_run_sql_query(db_instance, expected_fields, outcome, rows)
        \/ use_social_run_graph_query(db_instance, expected_fields, outcome, rows)

(***************************************************************************)
(* The deploy script, src/agents/app/agent_engine_app.py.  Command line    *)
(* texts are sequences of characters.                                      *)
(***************************************************************************)
\* the first position of character c in s, 0 when there is none
RECURSIVE Find(_, _, _)
Find(s, c, i) ==
    IF i > Len(s) THEN 0
    ELSE IF s[i] = c THEN i
    ELSE Find(s, c, i + 1)

\* str.split(c)
RECURSIVE Split(_, _)
Split(s, c) ==
    LET i == Find(s, c, 1)
    IN  IF i = 0 THEN <<s>>
        ELSE <<SubSeq(s, 1, i - 1)>> \o Split(SubSeq(s, i + 1, Len(s)), c)

\* str.strip()
RECURSIVE Strip(_)
Strip(s) ==
    IF s = <<>> THEN s
    ELSE IF Head(s) = " " THEN Strip(Tail(s))
    ELSE IF s[Len(s)] = " " THEN Strip(SubSeq(s, 1, Len(s) - 1))
    ELSE s

\* a dict with one entry set
DictSet(d, key, value) ==
    [k \in DOMAIN d \cup {key} |-> IF k = key THEN value ELSE d[k]]

\* the for loop over the pairs: an empty pair and a pair without "=" are
\* skipped, the others are stored under their stripped key
RECURSIVE ParsePairs(_, _)
ParsePairs(pairs, env_vars) ==
    IF pairs = <<>> THEN env_vars
    ELSE LET pair == Strip(Head(pairs))
             i == Find(pair, "=", 1)
         IN  IF pair = <<>> \/ i = 0
             THEN ParsePairs(Tail(pairs), env_vars)
             ELSE ParsePairs(Tail(pairs),
                             DictSet(env_vars, Strip(SubSeq(pair, 1, i - 1)),
                                     SubSeq(pair, i + 1, Len(pair))))

\* the env_vars the script builds from args.set_env_vars: None without the
\* option, else the pairs of the text split at its delimiter
ParseEnvVars(set_env_vars) ==
    IF set_env_vars = <<>>
    THEN [none |-> TRUE, map |-> <<>>]
    ELSE [none |-> FALSE, map |-> ParsePairs(Split(set_env_vars, ";"), <<>>)]

\* the pieces a --set-env-vars text is put together from, and the
\* characters put between them
PairTexts ==
    {<<"K", "=", "V">>, <<"L", "=", "W">>, <<"K">>, <<" ", "K", " ", "=", "V", " ">>}

Delimiters == {",", ";"}

RECURSIVE Join(_, _)
Join(items, seps) ==
    IF Len(items) = 1 THEN items[1]
    ELSE items[1] \o <<seps[1]>> \o Join(Tail(items), Tail(seps))

\* how one run of deploy_agent_engine_app goes
DeployOutcomes == {"ok", "setup_raises", "list_raises", "InvalidArgument", "raises"}

AgentNames == {"orchestrate-agent", "planner-agent"}

InitDeploy ==
    [items |-> <<>>, seps |-> <<>>, set_env_vars |-> <<>>,
     env_vars |-> [none |-> TRUE, map |-> <<>>],
     agent_name |-> NoneVal, agents |-> <<>>, outcome |-> "none",
     metadata |-> 0, previous |-> 0, written |-> FALSE, created |-> 0, updated |-> 0]

\* agent_engines.list(filter=display_name=...): the positions of the agents
\* of that name, in listing order
ExistingAgents(agents, agent_name) ==
    {i \in 1..Len(agents) : agents[i].display_name = agent_name}

\* deploy_agent_engine_app with the first agent of the name never looked
\* for: a new agent is created on every run
deploy_always_create(d, agent_name, env_vars, outcome) ==
    IF outcome # "ok"
    THEN [d EXCEPT !.agent_name = agent_name, !.env_vars = env_vars,
                   !.outcome = "raised", !.previous = d.metadata, !.written = FALSE]
    ELSE [d EXCEPT !.agent_name = agent_name, !.env_vars = env_vars,
                   !.outcome = "returned",
                   !.agents = Append(@, [id |-> Len(@) + 1, display_name |-> agent_name]),
                   !.created = @ + 1,
                   !.metadata = Len(d.agents) + 1,
                   !.previous = d.metadata,
                   !.written = TRUE]

\* deploy_agent_engine_app: the state of the remote side and of
\* deployment_metadata.json after one run; metadata is the agent id the
\* file holds (0: no file), previous what it held when the run began
deploy_run(d, agent_name, env_vars, outcome) ==
    LET existing_agents == ExistingAgents(d.agents, agent_name)
        first == CHOOSE i \in existing_agents : \A j \in existing_agents : i <= j
    IN  IF outcome # "ok"
        THEN \* an exception ahead of or inside the try block is re-raised
             [d EXCEPT !.agent_name = agent_name, !.env_vars = env_vars,
                       !.outcome = "raised", !.previous = d.metadata,
                       !.written = FALSE]
        ELSE IF existing_agents # {}
        THEN [d EXCEPT !.agent_name = agent_name, !.env_vars = env_vars,
                       !.outcome = "returned",
                       !.updated = @ + 1,
                       !.metadata = d.agents[first].id,
                       !.previous = d.metadata,
                       !.written = TRUE]
        ELSE [d EXCEPT !.agent_name = agent_name, !.env_vars = env_vars,
                       !.outcome = "returned",
                       !.agents = Append(@, [id |-> Len(@) + 1,
                                             display_name |-> agent_name]),
                       !.created = @ + 1,
                       !.metadata = Len(d.agents) + 1,
                       !.previous = d.metadata,
                       !.written = TRUE]

deploy_agent_engine_app(agent_name, env_vars, outcome) ==
    /\ Len(deploy.agents) < MaxAgents
    /\ deploy.created + deploy.updated < MaxDeploys
    /\ deploy' = [deploy_run(deploy, agent_name, env_vars, outcome) EXCEPT
                     !.items = <<>>, !.seps = <<>>, !.set_env_vars = <<>>]
    /\ UNCHANGED <<cookie, req, resp, postVars, db, tables, before, response, txCalls,
                   queries, returned, fetched, setup>>

\* the script run from the command line with --set-env-vars given (and the
\* default agent name): the text is parsed, then the agent is deployed
main(items, seps, outcome) ==
    LET set_env_vars == Join(items, seps)
        env_vars == ParseEnvVars(set_env_vars)
    IN  /\ Len(deploy.agents) < MaxAgents
        /\ deploy.created + deploy.updated < MaxDeploys
        /\ deploy' = [deploy_run(deploy, "orchestrate-agent", env_vars, outcome) EXCEPT
                         !.items = items, !.seps = seps, !.set_env_vars = set_env_vars]
        /\ UNCHANGED <<cookie, req, resp, postVars, db, tables, before, response, txCalls,
                       queries, returned, fetched, setup>>

NextArgs ==
    \E n \in 1..MaxPairs :
       \E items \in [1..n -> PairTexts], seps \in [1..(n - 1) -> Delimiters],
          outcome \in {"ok", "raises"} :
          main(items, seps, outcome)

EnvVarsInputs ==
    {[none |-> TRUE, map |-> <<>>],
     [none |-> FALSE, map |-> DictSet(<<>>, <<"K">>, <<"V">>)]}

NextDeploy ==
    \E agent_name \in AgentNames, env_vars \in EnvVarsInputs, outcome \in DeployOutcomes :
       deploy_agent_engine_app(agent_name, env_vars, outcome)

(***************************************************************************)
(* The setup script (src/instavibe/setup.py): the module obtains the       *)
(* database handle, then __main__ runs the base schema DDL, the property   *)
(* graph DDL and the data insertion, each step only after the one before   *)
(* it returned True.                                                       *)
(***************************************************************************)
MaxPrepared == 1
MaxCalls == 2

\* the tables of table_map, in the order the transaction function visits them
SetupTables ==
    <<"Person", "Event", "Location", "Post", "Friendship", "Attendance",
      "Mention", "EventLocation">>

SetupTableNames == {SetupTables[i] : i \in 1..Len(SetupTables)}

NoRows == [t \in SetupTableNames |-> 0]

\* how update_ddl / operation.result(360) can end
DdlOutcomes ==
    {"ok", "FailedPrecondition", "AlreadyExists", "InvalidArgument",
     "DeadlineExceeded", "Exception"}

\* how the handle is obtained when the module is loaded
ClientOutcomes == {"ok", "no_database", "NotFound", "Exception"}

\* the row lists insert_relational_data prepares, as a count per table:
\* posts without a mention leave mention_rows empty, events without
\* locations leave locations_rows and event_locations_rows empty
PreparedData ==
    {[t \in SetupTableNames |-> IF t \in empty THEN 0 ELSE n] :
        n \in 0..MaxPrepared,
        empty \in {{}, {"Mention"}, {"Location", "EventLocation"}}}

\* where the transaction fails: 0 it commits; k an exception is raised at
\* the k-th table of table_map or at the commit that follows
FailPoints == 0..Len(SetupTables)

run_ddl_statements(db_instance, outcome) ==
    IF ~db_instance THEN FALSE
    ELSE IF outcome = "ok" THEN TRUE
    ELSE IF outcome \in {"FailedPrecondition", "AlreadyExists"} THEN TRUE
    ELSE IF outcome = "InvalidArgument" THEN FALSE
    ELSE IF outcome = "DeadlineExceeded" THEN FALSE
    ELSE FALSE

setup_base_schema_and_indexes(db_instance, outcome) ==
    run_ddl_statements(db_instance, outcome)

setup_graph_definition(db_instance, outcome) ==
    run_ddl_statements(db_instance, outcome)

TableIndex(t) == CHOOSE i \in 1..Len(SetupTables) : SetupTables[i] = t

\* a variant that commits each table in a transaction of its own
insert_relational_data_per_table(db_instance, prepared, fail_at, rows) ==
    IF ~db_instance THEN [value |-> FALSE, rows |-> rows, txns |-> 0]
    ELSE IF \A t \in SetupTableNames : prepared[t] = 0
    THEN [value |-> TRUE, rows |-> rows, txns |-> 0]
    ELSE LET reached == {t \in SetupTableNames :
                            fail_at = 0 \/ TableIndex(t) < fail_at}
         IN [value |-> (fail_at = 0),
             rows |-> [t \in SetupTableNames |->
                         IF t \in reached THEN rows[t] + prepared[t] ELSE rows[t]],
             txns |-> Cardinality({t \in SetupTableNames :
                                     /\ prepared[t] > 0
                                     /\ (fail_at = 0 \/ TableIndex(t) <= fail_at)})]

\* the inserts of all eight tables are buffered by insert_data_txn and
\* committed by the one run_in_transaction call, or not at all
insert_relational_data(db_instance, prepared, fail_at, rows) ==
    IF ~db_instance THEN [value |-> FALSE, rows |-> rows, txns |-> 0]
    ELSE IF \A t \in SetupTableNames : prepared[t] = 0
    THEN [value |-> TRUE, rows |-> rows, txns |-> 0]
    ELSE IF fail_at = 0
    THEN [value |-> TRUE,
          rows |-> [t \in SetupTableNames |-> rows[t] + prepared[t]],
          txns |-> 1]
    ELSE [value |-> FALSE, rows |-> rows, txns |-> 1]

InitSetup ==
    [pc |-> "import", database |-> FALSE, steps |-> <<>>, status |-> NoneVal,
     called |-> FALSE, db_instance |-> FALSE, prepared |-> NoRows,
     fail_at |-> 0, value |-> FALSE, txns |-> 0,
     rows |-> NoRows, rows_before |-> NoRows, calls |-> 0]

\* a variant of __main__ that goes on to the next step whatever the step returned
main_next_ungated(ok, next) ==
    [pc |-> next, status |-> IF next = "finished" THEN 0 ELSE NoneVal]

\* if not step(database): exit(1)
main_next(ok, next) ==
    IF ~ok THEN [pc |-> "exited", status |-> 1]
    ELSE [pc |-> next, status |-> IF next = "finished" THEN 0 ELSE NoneVal]

setupUnchanged ==
    UNCHANGED <<cookie, req, resp, postVars, db, tables, before, response,
                txCalls, queries, returned, fetched, deploy>>

\* the module-level try block
spanner_client_init(outcome) ==
    /\ setup.pc = "import"
    /\ setup.calls = 0
    /\ setup' = [setup EXCEPT !.pc = "main", !.database = (outcome = "ok")]
    /\ setupUnchanged

main_check_database ==
    /\ setup.pc = "main"
    /\ LET to == main_next(setup.database, "step1")
       IN setup' = [setup EXCEPT !.pc = to.pc, !.status = to.status]
    /\ setupUnchanged

main_step1(outcome) ==
    /\ setup.pc = "step1"
    /\ LET ok == setup_base_schema_and_indexes(setup.database, outcome)
           to == main_next(ok, "step2")
       IN setup' = [setup EXCEPT
                      !.steps = Append(@, [step |-> "base", outcome |-> outcome,
                                           result |-> ok]),
                      !.pc = to.pc, !.status = to.status]
    /\ setupUnchanged

main_step2(outcome) ==
    /\ setup.pc = "step2"
    /\ LET ok == setup_graph_definition(setup.database, outcome)
           to == main_next(ok, "step3")
       IN setup' = [setup EXCEPT
                      !.steps = Append(@, [step |-> "graph", outcome |-> outcome,
                                           result |-> ok]),
                      !.pc = to.pc, !.status = to.status]
    /\ setupUnchanged

main_step3(prepared, fail_at) ==
    /\ setup.pc = "step3"
    /\ LET done == insert_relational_data(setup.database, prepared, fail_at, setup.rows)
           to == main_next(done.value, "finished")
       IN setup' = [setup EXCEPT
                      !.steps = Append(@, [step |-> "insert",
                                           outcome |-> IF fail_at = 0 THEN "ok"
                                                       ELSE "Exception",
                                           result |-> done.value]),
                      !.called = TRUE, !.db_instance = setup.database,
                      !.prepared = prepared, !.fail_at = fail_at,
                      !.value = done.value, !.txns = done.txns,
                      !.rows_before = setup.rows, !.rows = done.rows,
                      !.calls = @ + 1,
                      !.pc = to.pc, !.status = to.status]
    /\ setupUnchanged

\* insert_relational_data called on its own, with or without a handle
call_insert_relational_data(db_instance, prepared, fail_at) ==
    /\ setup.pc = "import"
    /\ setup.calls < MaxCalls
    /\ LET done == insert_relational_data(db_instance, prepared, fail_at, setup.rows)
       IN setup' = [setup EXCEPT
                      !.called = TRUE, !.db_instance = db_instance,
                      !.prepared = prepared, !.fail_at = fail_at,
                      !.value = done.value, !.txns = done.txns,
                      !.rows_before = setup.rows, !.rows = done.rows,
                      !.calls = @ + 1]
    /\ setupUnchanged

NextSetup ==
    \/ \E outcome \in ClientOutcomes : spanner_client_init(outcome)
    \/ main_check_database
    \/ \E outcome \in DdlOutcomes : main_step1(outcome)
    \/ \E outcome \in DdlOutcomes : main_step2(outcome)
    \/ \E prepared \in PreparedData, fail_at \in FailPoints :
          main_step3(prepared, fail_at)

NextInsert ==
    \E db_instance \in BOOLEAN, prepared \in PreparedData, fail_at \in FailPoints :
       call_insert_relational_data(db_instance, prepared, fail_at)

NextPostApi ==
    \E data \in PostBodies :
          IF PostBodyValid(data)
          THEN \E failure \in LookupFailures(1), id \in PostIds, txOk \in BOOLEAN :
                  add_post_api(data, failure, id, txOk)
          ELSE add_post_api(data, <<0, "ok">>, "u0", TRUE)

NextEventApi ==
    \E data \in EventBodies :
          IF EventBodyValid(data)
          THEN \E failure \in LookupFailures(Len(data.attendee_names)),
                  id \in EventIds, txOk \in BOOLEAN :
                  add_event_api(data, failure, id, txOk)
          ELSE add_event_api(data, <<0, "ok">>, "e0", TRUE)

NextApp == NextPages \/ NextPostApi

NextPlan ==
    \/ \E d \in {"", "2025-06-01"}, l \in {"", "park"}, f \in {<<>>, <<"Bob">>} :
          submit_introvert_ally_request(d, l, f)
    \/ \E r \in Requests : stream_introvert_ally_plan(r)
    \/ \E r \in Requests : error_stream(r)
    \/ \E r \in Requests : generate_stream_yield(r)
    \/ \E r \in Requests : generate_stream_resume(r)
    \/ \E r \in Requests : generate_stream_end(r)
    \/ \E r \in Requests : generate_stream_except(r)
    \/ \E r \in Requests : close(r)
    \/ introvert_ally_review_page

Init ==
    /\ InitAlly
    /\ db \in BOOLEAN
    /\ tables = InitTables
    /\ before = InitTables
    /\ response = NoPage
    /\ txCalls = 0
    /\ queries = <<>>
    /\ returned = NoCall
    /\ fetched = NoFetch
    /\ deploy = InitDeploy
    /\ setup = InitSetup

SpecPlan == Init /\ [][NextPlan]_vars

SpecPost == Init /\ [][NextPost]_vars

SpecApp == Init /\ [][NextApp]_vars

SpecEvents == Init /\ [][NextEventApi]_vars

SpecHelper == Init /\ [][NextHelper]_vars

SpecFetch == Init /\ [][NextFetch]_vars

SpecArgs == Init /\ [][NextArgs]_vars

SpecDeploy == Init /\ [][NextDeploy]_vars

SpecSetup == Init /\ [][NextSetup]_vars

SpecInsert == Init /\ [][NextInsert]_vars

\* The four request flows with a retry to look for, each explored from the
\* initial state on its own: a handler's count of calls is written by that
\* handler alone, so the flows need not be interleaved with each other.
PlanFlowOnly ==
    /\ response = NoPage
    /\ confirms = 0 /\ postCalls = 0
    /\ resp.route \notin {"confirm", "post-status"}
    /\ \A r \in Requests : req[r].route # "stream-post-status"

PostFlowOnly ==
    /\ response = NoPage
    /\ cookie.ally_request_params = EmptySession.ally_request_params
    /\ resp.route \notin {"submit", "review"}
    /\ \A r \in Requests : req[r].route # "stream-plan"

PostApiOnly ==
    /\ response.route \in {"none", "add_post_api"}
    /\ cookie = EmptySession /\ resp = NoResp /\ confirms = 0
    /\ \A r \in Requests : req[r] = IdleReq

EventApiOnly ==
    /\ response.route \in {"none", "add_event_api"}
    /\ cookie = EmptySession /\ resp = NoResp /\ confirms = 0
    /\ \A r \in Requests : req[r] = IdleReq

NextRetry ==
    \/ PlanFlowOnly /\ NextPlan
    \/ PostFlowOnly /\ NextPost
    \/ PostApiOnly /\ NextPostApi
    \/ EventApiOnly /\ NextEventApi

SpecRetry == Init /\ [][NextRetry]_vars

(***************************************************************************)
(* C1: for every sequence of events call_agent_for_plan yields without     *)
(* raising, the plan stream sends one message per event, in order, none    *)
(* dropped or repeated (an event whose data cannot be serialized goes out  *)
(* as thought_error), and ends with exactly one stream_end, sent last.     *)
(***************************************************************************)
C1_RelaysEveryEventThenStreamEnd ==
    \A r \in Requests :
        LET rq == req[r]
            n == Len(rq.yielded)
        IN  (/\ rq.route = "stream-plan"
             /\ rq.pc \in {"streaming", "yielded", "done"}
             /\ rq.pc = "done" => rq.calls = 1)
            =>
            /\ Len(rq.out) = n + (IF rq.pc = "done" THEN 1 ELSE 0)
            /\ \A i \in 1..n :
                  rq.out[i] = IF rq.yielded[i].data = "obj"
                              THEN [event |-> "thought_error", data |-> "json(ser_issue)"]
                              ELSE [event |-> rq.yielded[i].type,
                                    data |-> "json(" \o rq.yielded[i].data \o ")"]
            /\ rq.pc = "done" => rq.out[n + 1] = [event |-> "stream_end", data |-> "json({})"]

\* a finished plan stream that relayed two different events, one of them unserializable
C1_Witness ==
    \E r \in Requests :
        /\ req[r].route = "stream-plan" /\ req[r].pc = "done"
        /\ Len(req[r].yielded) = 2
        /\ req[r].yielded[1].data = "obj"
        /\ req[r].yielded[2].type = "plan_complete"

(***************************************************************************)
(* C2: once the plan stream has relayed a plan_complete or error event and *)
(* run the lines that store it, the client's session holds that event's    *)
(* data in ally_plan_details, so that GET /introvert-ally/review renders   *)
(* it after a reload.                                                      *)
(***************************************************************************)
C2_PlanSurvivesReload ==
    [][\A r \in Requests :
          (/\ generate_stream_resume(r)
           /\ req[r].yielded[Len(req[r].yielded)].type \in {"plan_complete", "error"})
          => cookie'.ally_plan_details = req[r].yielded[Len(req[r].yielded)].data]_vars

\* what the code does instead: the review page rendered with no plan while a
\* finished stream's own copy of the session holds the plan
C2_ReloadShowsNoPlan ==
    \E r \in Requests :
        /\ req[r].route = "stream-plan" /\ req[r].pc = "done"
        /\ req[r].session.ally_plan_details = "p1"
        /\ cookie.ally_plan_details = NoneVal
        /\ resp.route = "review" /\ resp.plan = NoneVal

(***************************************************************************)
(* C3: after a post-status stream has run to completion the client's       *)
(* session holds no ally_post_params, so that the post-status page         *)
(* redirects and a later stream request does not invoke post_plan_event    *)
(* again.                                                                  *)
(***************************************************************************)
C3_PostParamsGoneAfterStream ==
    postStreamDone => cookie.ally_post_params = <<>>

\* what the code does instead: a stream has completed and been closed, and a
\* later request of the same confirmation invoked post_plan_event again
C3_SecondInvocation ==
    /\ postStreamDone /\ confirms = 1 /\ postCalls = 2
    /\ \E r \in Requests : req[r].route = "stream-post-status" /\ req[r].calls = 1
    /\ \E r \in Requests : req[r].route = "idle"

(***************************************************************************)
(* C4: of two requests of one session to /introvert-ally/stream-post-status *)
(* that are in flight together after a single confirmation, at most one    *)
(* invokes post_plan_event.                                                *)
(***************************************************************************)
C4_AtMostOnePostUnderInterleaving ==
    \A r1, r2 \in Requests :
        (/\ r1 # r2 /\ confirms = 1
         /\ req[r1].route = "stream-post-status" /\ req[r1].pc \in {"streaming", "yielded"}
         /\ req[r2].route = "stream-post-status" /\ req[r2].pc \in {"streaming", "yielded"})
        => req[r1].calls + req[r2].calls <= 1

(***************************************************************************)
(* C5: when loading the people fails on GET /introvert-ally (no database,  *)
(* a failed import, a query that raises or is refused), the page is        *)
(* rendered with no friends and the warning 'Could not load the list of    *)
(* people from the database.' is flashed.                                  *)
(***************************************************************************)
C5_FailedLoadWarns ==
    (response.route = "introvert_ally_page" /\ (~db \/ response.outcome # "ok"))
    => /\ response.status = 200
       /\ response.friends = <<>>
       /\ "Could not load the list of people from the database." \in response.flashes

(***************************************************************************)
(* C6: no handler retries: a POST /api/posts request runs the insert       *)
(* transaction at most once, a POST /api/events request runs its           *)
(* transaction at most once, and a request to either stream endpoint       *)
(* starts its agent generator at most once, failure or not.                *)
(***************************************************************************)
C6_NoRetry ==
    /\ response.route \in {"add_post_api", "add_event_api"} => txCalls <= 1
    /\ \A r \in Requests :
          req[r].route \in {"stream-plan", "stream-post-status"} => req[r].calls <= 1

\* a plan stream whose agent call raised after one call
C6_Witness ==
    \E r \in Requests :
        req[r].route = "stream-plan" /\ req[r].pc = "raised" /\ req[r].calls = 1

(***************************************************************************)
(* C7: the text of every statement sent to the database is the same for    *)
(* any two inputs of the function that sent it; the input appears only in  *)
(* the parameters.                                                         *)
(***************************************************************************)
C7_SqlTextIndependentOfInput ==
    \A i \in 1..Len(queries) :
        LET q == queries[i]
        IN  /\ q.fn = "get_person_db" =>
                 \A x \in PersonIdInputs : get_person_db(x).sql = q.sql
            /\ q.fn = "get_posts_by_person_db" =>
                 \A x \in PersonIdInputs : get_posts_by_person_db(x).sql = q.sql
            /\ q.fn = "get_friends_db" =>
                 \A x \in PersonIdInputs : get_friends_db(x).sql = q.sql
            /\ q.fn = "get_all_events_with_attendees_db.event_sql" =>
                 get_all_events_sql.sql = q.sql
            /\ q.fn = "get_all_events_with_attendees_db.attendee_sql" =>
                 \A x \in SUBSET EventIds : get_all_events_attendee_sql(x).sql = q.sql
            /\ q.fn = "get_event_details_with_locations_attendees_db.event_sql" =>
                 \A x \in EventIdInputs : get_event_details_event_sql(x).sql = q.sql
            /\ q.fn = "get_event_details_with_locations_attendees_db.locations_sql" =>
                 \A x \in EventIdInputs : get_event_details_locations_sql(x).sql = q.sql
            /\ q.fn = "get_event_details_with_locations_attendees_db.attendees_sql" =>
                 \A x \in EventIdInputs : get_event_details_attendees_sql(x).sql = q.sql
            /\ q.fn = "get_person_by_name_db" =>
                 \A x \in NameInputs : get_person_by_name_db(x).sql = q.sql

\* get_person_db was sent for an id that holds quotes
C7_Witness ==
    \E i \in 1..Len(queries) :
        queries[i].fn = "get_person_db" /\ queries[i].value = "' OR '1'='1"

(***************************************************************************)
(* C8: with the database available and the query succeeding,               *)
(* GET /person/<id> answers 404 when no Person row has the id, and         *)
(* GET /event/<id> answers 404 when no Event row has the id.               *)
(***************************************************************************)
C8_MissingRowGives404 ==
    /\ (/\ response.route = "person_profile" /\ db /\ response.outcome = "ok"
        /\ ~(\E p \in Person : p.person_id = response.request))
       => response.status = 404
    /\ (/\ response.route = "event_detail_page" /\ db /\ response.outcome = "ok"
        /\ response.request \notin tables.Event)
       => response.status = 404

(***************************************************************************)
(* C9: a POST /api/posts request commits a Post row exactly when it        *)
(* answers 201, and then exactly one row, whose post_id is the id returned *)
(* and whose author_id is the person_id found for author_name; with 400,   *)
(* 404, 500 or 503 the tables are as they were.                            *)
(***************************************************************************)
C9_PostRowIffCreated ==
    response.route = "add_post_api" =>
        /\ response.status = 201 <=> tables.Post # before.Post
        /\ response.status = 201 =>
              /\ before.Post \subseteq tables.Post
              /\ Cardinality(tables.Post \ before.Post) = 1
              /\ \A row \in tables.Post \ before.Post :
                    /\ row.post_id = response.id
                    /\ row.author_id # NoneVal
                    /\ row.author_id = PersonIdByName(queries[1].value)
              /\ Cardinality({row \in tables.Post : row.post_id = response.id}) = 1
              /\ [tables EXCEPT !.Post = before.Post] = before
        /\ response.status # 201 => tables = before

\* a post was created for Bob
C9_Witness ==
    /\ response.route = "add_post_api" /\ response.status = 201
    /\ \E row \in tables.Post \ before.Post : row.author_id = "p2"

(***************************************************************************)
(* C10: a POST /api/events request either commits the Event row with every *)
(* Location, EventLocation and Attendance row of the request and answers   *)
(* 201, or commits none of them and answers something else.                *)
(***************************************************************************)
C10_EventAllOrNothing ==
    response.route = "add_event_api" =>
        \/ /\ response.status = 201
           /\ \A tb \in DOMAIN tables : before[tb] \subseteq tables[tb]
           /\ tables.Post = before.Post
           /\ tables.Event \ before.Event = {response.id}
           /\ response.nlocs >= 1
           /\ Cardinality(tables.Location \ before.Location) = response.nlocs
           /\ tables.EventLocation \ before.EventLocation
                 = {<<response.id, l>> : l \in tables.Location \ before.Location}
           /\ queries # <<>>
           /\ tables.Attendance \ before.Attendance
                 = {<<PersonIdByName(queries[i].value), response.id>> : i \in 1..Len(queries)}
           /\ Cardinality(tables.Attendance \ before.Attendance) = Len(queries)
        \/ /\ response.status # 201
           /\ tables = before

\* an event with two locations and two attendees was created
C10_Witness ==
    /\ response.route = "add_event_api" /\ response.status = 201
    /\ response.nlocs = 2 /\ Len(queries) = 2

(***************************************************************************)
(* C11: add_full_event_with_details_db returns True when the transaction   *)
(* succeeded and False otherwise; for every input and every state of the   *)
(* database, a missing database handle included, it returns a boolean and  *)
(* does not raise.                                                         *)
(***************************************************************************)
C11_ReturnsBooleanNeverRaises ==
    returned.fn = "add_full_event_with_details_db" =>
        /\ returned.raised = NoneVal
        /\ returned.value \in {"True", "False"}
        /\ returned.value = "True" <=> tables.Event # before.Event

(***************************************************************************)
(* C12: run_graph_query and run_sql_query return a list of dicts on        *)
(* success and None on error: with no database handle, no expected_fields, *)
(* or an exception while the query is executed or read they return None    *)
(* and do not raise; every dict returned has exactly the expected_fields   *)
(* as keys, and a row of another length is skipped.                        *)
(***************************************************************************)
C12_ListOrNoneNeverRaises ==
    fetched.fn # "none" =>
        LET failed == \/ ~fetched.db_instance
                      \/ fetched.expected_fields = <<>>
                      \/ fetched.outcome # "ok"
            fields == {fetched.expected_fields[i] : i \in 1..Len(fetched.expected_fields)}
            kept == {i \in 1..Len(fetched.rows) :
                        Len(fetched.rows[i]) = Len(fetched.expected_fields)}
        IN  /\ fetched.raised = NoneVal
            /\ fetched.value.none <=> failed
            /\ ~fetched.value.none =>
                  /\ Len(fetched.value.rows) = Cardinality(kept)
                  /\ \A i \in 1..Len(fetched.value.rows) :
                        DOMAIN fetched.value.rows[i] = fields

\* once their module is loaded the functions keep the contract: a call that
\* returned a list with one row kept and one row skipped
C12_ReturnedWithRowSkipped ==
    /\ fetched.module = "agents/social/instavibe.py"
    /\ fetched.raised = NoneVal /\ ~fetched.value.none
    /\ Len(fetched.rows) = 2 /\ Len(fetched.value.rows) = 1

(***************************************************************************)
(* C13: --set-env-vars takes a comma-separated list of KEY=VALUE pairs:    *)
(* for the text K1=V1,K2=V2,...,Kn=Vn the env_vars passed to               *)
(* deploy_agent_engine_app has exactly the n entries Ki -> Vi.             *)
(***************************************************************************)
C13_CommaSeparatedPairs ==
    (/\ deploy.items # <<>>
     /\ \A i \in 1..Len(deploy.seps) : deploy.seps[i] = ","
     /\ \A i \in 1..Len(deploy.items) :
           /\ deploy.items[i] \in {<<"K", "=", "V">>, <<"L", "=", "W">>}
           /\ \A j \in 1..Len(deploy.items) : i # j => deploy.items[i] # deploy.items[j])
    => /\ ~deploy.env_vars.none
       /\ DOMAIN deploy.env_vars.map = {<<deploy.items[i][1]>> : i \in 1..Len(deploy.items)}
       /\ \A i \in 1..Len(deploy.items) :
             deploy.env_vars.map[<<deploy.items[i][1]>>] = <<deploy.items[i][3]>>

\* what the script does with K=V,L=W: one entry, K -> V,L=W
C13_CommaTextGivesOneEntry ==
    /\ deploy.set_env_vars = <<"K", "=", "V", ",", "L", "=", "W">>
    /\ DOMAIN deploy.env_vars.map = {<<"K">>}
    /\ deploy.env_vars.map[<<"K">>] = <<"V", ",", "L", "=", "W">>

(***************************************************************************)
(* C14: deploy_agent_engine_app creates an agent only when none has the    *)
(* display_name and otherwise updates the first one: starting with no      *)
(* agent of the name, after any number of successful runs one after the    *)
(* other exactly one agent has that display_name; deployment_metadata.json *)
(* is written only after the create or update succeeded, and a run that    *)
(* raises leaves the file as it was.                                       *)
(***************************************************************************)
C14_OneAgentPerName ==
    /\ \A n \in AgentNames : Cardinality(ExistingAgents(deploy.agents, n)) <= 1
    /\ deploy.created = Len(deploy.agents)
    /\ deploy.outcome = "returned" =>
          /\ Cardinality(ExistingAgents(deploy.agents, deploy.agent_name)) = 1
          /\ deploy.written
          /\ \E i \in ExistingAgents(deploy.agents, deploy.agent_name) :
                deploy.metadata = deploy.agents[i].id
    /\ deploy.outcome = "raised" =>
          /\ ~deploy.written
          /\ deploy.metadata = deploy.previous

\* the same name deployed three times: one create, two updates
C14_Witness ==
    /\ deploy.outcome = "returned"
    /\ deploy.created = 1 /\ deploy.updated = 2
    /\ Len(deploy.agents) = 1

(***************************************************************************)
(* C15: the setup script runs its three steps in order and gated: the      *)
(* graph DDL is issued only after the base schema DDL returned True, and   *)
(* insert_relational_data runs only after both returned True; a step that  *)
(* returns False ends the script with exit status 1 and no later step      *)
(* runs; a DDL step that ends in InvalidArgument always returns False.     *)
(***************************************************************************)
C15_StepsInOrderAndGated ==
    LET order == <<"base", "graph", "insert">>
        n == Len(setup.steps)
    IN /\ n <= Len(order)
       /\ \A i \in 1..n : setup.steps[i].step = order[i]
       /\ \A i \in 1..n : i < n => setup.steps[i].result
       /\ \A i \in 1..n :
             (setup.steps[i].step # "insert" /\ setup.steps[i].outcome = "InvalidArgument")
                => ~setup.steps[i].result
       /\ (n > 0 /\ ~setup.steps[n].result) =>
             (setup.pc = "exited" /\ setup.status = 1)
       /\ setup.pc = "exited" =>
             /\ setup.status = 1
             /\ (~setup.database /\ n = 0) \/ (n > 0 /\ ~setup.steps[n].result)
       /\ setup.pc = "finished" =>
             /\ n = Len(order)
             /\ \A i \in 1..n : setup.steps[i].result
             /\ setup.status = 0

\* the graph DDL ended in InvalidArgument after the base DDL returned True:
\* the script exited with status 1 and no data was inserted
C15_Witness ==
    /\ Len(setup.steps) = 2
    /\ setup.steps[1].result
    /\ setup.steps[2].outcome = "InvalidArgument"
    /\ setup.pc = "exited" /\ setup.status = 1
    /\ ~setup.called

(***************************************************************************)
(* C16: insert_relational_data inserts the rows of all eight tables in a   *)
(* single transaction: either every prepared row is committed and it       *)
(* returns True, or no row is committed and it returns False.              *)
(***************************************************************************)
C16_AllRowsOrNone ==
    setup.called =>
       /\ setup.txns <= 1
       /\ setup.value =>
             \A t \in SetupTableNames :
                setup.rows[t] = setup.rows_before[t] + setup.prepared[t]
       /\ ~setup.value => setup.rows = setup.rows_before
       /\ (setup.rows # setup.rows_before) => setup.txns = 1

\* a call whose transaction failed at the fifth table after an earlier call
\* had committed rows: the tables are as that earlier call left them
C16_Witness ==
    /\ setup.called /\ setup.db_instance
    /\ ~setup.value
    /\ setup.fail_at = 5
    /\ setup.prepared["Person"] > 0
    /\ setup.rows["Person"] > 0
    /\ setup.rows = setup.rows_before

====
